---- MODULE Spec2Model ----
(***************************************************************************)
(* Model of the CMake test-definition extractor of snipe                   *)
(* (src/src/cmake_parser).  A string is a sequence of one-character        *)
(* strings, so that prefix tests, the ".Cc" replacement and the            *)
(* placeholder regex are computed character by character as the code      *)
(* computes them.  A HashSet is a set, a HashMap a function on its keys.   *)
(* A panic of the code is an aborted parse.                                *)
(***************************************************************************)
EXTENDS Naturals, Sequences, FiniteSets, TLC

VARIABLES
    source_sets,  \* ParseContext.source_sets: name -> SourceSet
    tests,        \* ParseContext.tests: name -> RpTest
    status,       \* position of parse_unit / parse_tests_from_file
    remaining,    \* dispatcher passes the unread input still allows
    step,         \* the construct the dispatcher handled last, as it read it
    discovery,    \* names in the order they were inserted into tests
    output,       \* the Vec returned by parse_tests_from_file
    replaced,     \* set name -> the files of its overwritten declarations
    bindings,     \* LazyBinding.bindings of a table driven through its methods
    call,         \* the method called last on that table, and what it returned
    calls,        \* number of method calls made on that table
    text,         \* the text handed to skip_to_next_tag next
    scanned,      \* what skip_to_next_tag returned last, and for which text
    rp_tokens,    \* the tokens of a test declaration handed to parse_rp_test
    rp_parsed     \* what parse_rp_test made of them

parse_vars == <<source_sets, tests, status, remaining, step, discovery, output, replaced>>
table_vars == <<bindings, call, calls>>
scan_vars == <<text, scanned>>
rp_vars == <<rp_tokens, rp_parsed>>
vars == <<source_sets, tests, status, remaining, step, discovery, output, replaced,
          bindings, call, calls, text, scanned, rp_tokens, rp_parsed>>

(***************************************************************************)
(* Bounds of the model.                                                    *)
(***************************************************************************)
MaxTags == 3
MaxCalls == 5
MaxPieces == 3
MaxTokens == 5

(***************************************************************************)
(* Strings.                                                                *)
(***************************************************************************)
a_cc == <<"a", ".", "c", "c">>
b_cc == <<"b", ".", "c", "c">>
a_Cc == <<"a", ".", "C", "c">>
SRC == <<"S", "R", "C">>
LIB == <<"L", "I", "B">>
F == <<"F">>
STEM == <<"S", "T", "E", "M">>
t_plain == <<"t">>
u_plain == <<"u">>
test_ == <<"t", "e", "s", "t", "_">>
dir_ == <<"d", "/">>
UNIT_TEST == <<"U", "N", "I", "T", "_", "T", "E", "S", "T">>
FIXTURE_TEST == <<"F", "I", "X", "T", "U", "R", "E", "_", "T", "E", "S", "T">>
BENCHMARK_TEST ==
    <<"B", "E", "N", "C", "H", "M", "A", "R", "K", "_", "T", "E", "S", "T">>
BINARY_NAME == <<"B", "I", "N", "A", "R", "Y", "_", "N", "A", "M", "E">>
SOURCES == <<"S", "O", "U", "R", "C", "E", "S">>
LIBRARIES == <<"L", "I", "B", "R", "A", "R", "I", "E", "S">>
DotCc == <<".", "C", "c">>
DollarBrace == <<"$", "{">>
CloseBrace == <<"}">>

\* "${" name "}" as the input text writes it
Subst(name) == DollarBrace \o name \o CloseBrace

UpperChars ==
    {"A", "B", "C", "D", "E", "F", "G", "H", "I", "J", "K", "L", "M",
     "N", "O", "P", "Q", "R", "S", "T", "U", "V", "W", "X", "Y", "Z"}

starts_with(s, p) ==
    /\ Len(p) <= Len(s)
    /\ SubSeq(s, 1, Len(p)) = p

ends_with(s, p) ==
    /\ Len(p) <= Len(s)
    /\ SubSeq(s, Len(s) - Len(p) + 1, Len(s)) = p

\* positions at which p occurs in s
Occurrences(s, p) ==
    {i \in 1..Len(s) : i + Len(p) - 1 <= Len(s) /\ SubSeq(s, i, i + Len(p) - 1) = p}

contains(s, p) == Len(p) = 0 \/ Occurrences(s, p) # {}

Min(S) == CHOOSE x \in S : \A y \in S : x <= y
Max(S) == CHOOSE x \in S : \A y \in S : y <= x

\* str::replace: every non-overlapping occurrence, left to right
RECURSIVE replace(_, _, _)
replace(s, from, to) ==
    IF Len(from) = 0 \/ Occurrences(s, from) = {}
    THEN s
    ELSE LET i == Min(Occurrences(s, from))
         IN SubSeq(s, 1, i - 1) \o to
                \o replace(SubSeq(s, i + Len(from), Len(s)), from, to)

\* src.chars().skip(2).take(src.len() - 3)
skip2_take_len3(s) == SubSeq(s, 3, Len(s) - 1)

\* a function as a HashMap: insert
map_insert(m, k, v) == [x \in DOMAIN m \cup {k} |-> IF x = k THEN v ELSE m[x]]

EmptyMap == [x \in {} |-> {}]

Range(f) == {f[x] : x \in DOMAIN f}

Perms(S) == {p \in [1..Cardinality(S) -> S] : Range(p) = S}


(***************************************************************************)
(* lazy_binding.rs: the deferred binding table.                            *)
(***************************************************************************)
Nothing == [kind |-> "Nothing"]
String(s) == [kind |-> "String", s |-> s]
IndirectBinding(target) == [kind |-> "IndirectBinding", target |-> target]

\* the closure parse_foreach attaches: |v| v.replace(".Cc", "")
transformer(v) == replace(v, DotCc, <<>>)

add(table, key) == map_insert(table, key, Nothing)

\* a variant without the assert on the target
add_transformed_unchecked(table, key, target) ==
    [ok |-> TRUE, bindings |-> map_insert(table, key, IndirectBinding(target))]

add_transformed(table, key, target) ==
    IF target \in DOMAIN table
    THEN [ok |-> TRUE, bindings |-> map_insert(table, key, IndirectBinding(target))]
    ELSE [ok |-> FALSE, bindings |-> table]

\* a variant without the assert on the key
populate_unchecked(table, key, val) ==
    [ok |-> TRUE, bindings |-> map_insert(table, key, String(val))]

\* a variant that checks the key and stores nothing
populate_unbound(table, key, val) ==
    [ok |-> key \in DOMAIN table, bindings |-> table]

populate(table, key, val) ==
    IF key \in DOMAIN table
    THEN [ok |-> TRUE, bindings |-> map_insert(table, key, String(val))]
    ELSE [ok |-> FALSE, bindings |-> table]

to_map_entry_ok(table, k) ==
    CASE table[k].kind = "Nothing" -> FALSE
      [] table[k].kind = "String" -> TRUE
      [] table[k].kind = "IndirectBinding" ->
            /\ table[k].target \in DOMAIN table
            /\ table[table[k].target].kind = "String"

\* a variant that copies the target's value as it is
to_map_value_untransformed(table, k) ==
    IF table[k].kind = "String"
    THEN table[k].s
    ELSE table[table[k].target].s

to_map_value(table, k) ==
    IF table[k].kind = "String"
    THEN table[k].s
    ELSE transformer(table[table[k].target].s)

\* a variant that moves the entries out of the table
to_map_draining(table) ==
    IF \A k \in DOMAIN table : to_map_entry_ok(table, k)
    THEN [ok |-> TRUE, map |-> [k \in DOMAIN table |-> to_map_value(table, k)],
          bindings |-> EmptyMap]
    ELSE [ok |-> FALSE, map |-> EmptyMap, bindings |-> table]

\* to_map borrows the table (&self): bindings is the table the call leaves
to_map(table) ==
    IF \A k \in DOMAIN table : to_map_entry_ok(table, k)
    THEN [ok |-> TRUE, map |-> [k \in DOMAIN table |-> to_map_value(table, k)],
          bindings |-> table]
    ELSE [ok |-> FALSE, map |-> EmptyMap, bindings |-> table]

(***************************************************************************)
(* structures.rs: SourceSet and RpTest.                                    *)
(***************************************************************************)
SourceSet_new(keys) ==
    IF Len(keys) = 0
    THEN [ok |-> FALSE, set |-> [name |-> <<>>, files |-> {}]]
    ELSE [ok |-> TRUE,
          set |-> [name |-> keys[1], files |-> {keys[i] : i \in 2..Len(keys)}]]

is_whole_placeholder(src) == starts_with(src, DollarBrace) /\ ends_with(src, CloseBrace)

\* a variant that keeps only the substituted placeholders
eval_source_list_placeholders_only(sources, variables) ==
    IF \A src \in sources :
          is_whole_placeholder(src) => skip2_take_len3(src) \in DOMAIN variables
    THEN [ok |-> TRUE,
          sources |-> {variables[skip2_take_len3(src)] :
                          src \in {x \in sources : is_whole_placeholder(x)}}]
    ELSE [ok |-> FALSE, sources |-> {}]

\* a variant that keeps a placeholder of an unknown variable as it is
eval_source_list_lenient(sources, variables) ==
    [ok |-> TRUE,
     sources |-> {IF is_whole_placeholder(src) /\ skip2_take_len3(src) \in DOMAIN variables
                  THEN variables[skip2_take_len3(src)]
                  ELSE src : src \in sources}]

eval_source_list(sources, variables) ==
    IF \A src \in sources :
          is_whole_placeholder(src) => skip2_take_len3(src) \in DOMAIN variables
    THEN [ok |-> TRUE,
          sources |-> {IF is_whole_placeholder(src)
                       THEN variables[skip2_take_len3(src)]
                       ELSE src : src \in sources}]
    ELSE [ok |-> FALSE, sources |-> {}]

\* the matches of the regex \$\{.*\} in name, each with "${" and "}" cut off:
\* the leftmost "${" that has a "}" after it, up to the last "}" of the name
regex_vars(name) ==
    LET opens == Occurrences(name, DollarBrace)
        closes == Occurrences(name, CloseBrace)
        starts == {i \in opens : \E j \in closes : j >= i + 2}
    IN IF starts = {}
       THEN <<>>
       ELSE <<skip2_take_len3(SubSeq(name, Min(starts), Max(closes)))>>

RECURSIVE eval_name_loop(_, _, _)
eval_name_loop(name, vs, variables) ==
    IF Len(vs) = 0
    THEN [ok |-> TRUE, name |-> name]
    ELSE IF Head(vs) \notin DOMAIN variables
         THEN [ok |-> FALSE, name |-> name]
         ELSE eval_name_loop(replace(name, Subst(Head(vs)), variables[Head(vs)]),
                             Tail(vs), variables)

eval_name(name, variables) == eval_name_loop(name, regex_vars(name), variables)

eval(test, variables) ==
    LET n == eval_name(test.name, variables)
        s == eval_source_list(test.sources, variables)
    IN IF n.ok /\ s.ok
       THEN [ok |-> TRUE, test |-> [test EXCEPT !.name = n.name, !.sources = s.sources]]
       ELSE [ok |-> FALSE, test |-> test]

needs_source_expansion(test) == \E s \in test.sources : contains(s, <<"$">>)

\* a variant that drops the sources that are no placeholder
expand_sources_no_literals(test, sets) ==
    IF \A src \in test.sources :
          is_whole_placeholder(src) => skip2_take_len3(src) \in DOMAIN sets
    THEN [ok |-> TRUE,
          test |-> [test EXCEPT !.sources =
                      UNION {sets[skip2_take_len3(src)].files :
                                src \in {x \in test.sources : is_whole_placeholder(x)}}]]
    ELSE [ok |-> FALSE, test |-> test]

\* a variant that expands an undeclared set to nothing
expand_sources_skip_undeclared(test, sets) ==
    [ok |-> TRUE,
     test |-> [test EXCEPT !.sources =
                 UNION {IF is_whole_placeholder(src)
                        THEN IF skip2_take_len3(src) \in DOMAIN sets
                             THEN sets[skip2_take_len3(src)].files
                             ELSE {}
                        ELSE {src} : src \in test.sources}]]

expand_sources(test, sets) ==
    IF \A src \in test.sources :
          is_whole_placeholder(src) => skip2_take_len3(src) \in DOMAIN sets
    THEN [ok |-> TRUE,
          test |-> [test EXCEPT !.sources =
                      UNION {IF is_whole_placeholder(src)
                             THEN sets[skip2_take_len3(src)].files
                             ELSE {src} : src \in test.sources}]]
    ELSE [ok |-> FALSE, test |-> test]

(***************************************************************************)
(* parsers.rs: the construct parsers, on the tokens parse_identifier cut.  *)
(***************************************************************************)
position(tokens, word) ==
    LET hits == {i \in 1..Len(tokens) : tokens[i] = word}
    IN IF hits = {} THEN 0 ELSE Min(hits)

\* a variant that names the test "" when nothing follows the marker
find_test_name_lenient(tokens) ==
    LET bin == position(tokens, BINARY_NAME)
    IN IF bin = 0
       THEN [ok |-> FALSE, name |-> <<>>]
       ELSE [ok |-> TRUE, name |-> IF bin + 1 > Len(tokens) THEN <<>> ELSE tokens[bin + 1]]

find_test_name(tokens) ==
    LET bin == position(tokens, BINARY_NAME)
    IN IF bin = 0 \/ bin + 1 > Len(tokens)
       THEN [ok |-> FALSE, name |-> <<>>]
       ELSE [ok |-> TRUE, name |-> tokens[bin + 1]]

\* a variant that takes an empty token for a source
is_stop_word_nonempty(s) ==
    /\ Len(s) > 0
    /\ \A i \in 1..Len(s) : s[i] \in UpperChars \/ s[i] = "_"

is_stop_word(s) == \A i \in 1..Len(s) : s[i] \in UpperChars \/ s[i] = "_"

find_test_sources(tokens) ==
    LET bin == position(tokens, SOURCES)
        stops == {i \in (bin + 1)..Len(tokens) : is_stop_word(tokens[i])}
        last == IF stops = {} THEN Len(tokens) ELSE Min(stops) - 1
    IN IF bin = 0
       THEN [ok |-> FALSE, sources |-> {}]
       ELSE [ok |-> TRUE, sources |-> {tokens[i] : i \in (bin + 1)..last}]

\* a variant that takes a fixture for a benchmark and a benchmark for a fixture
test_kind_swapped(token) ==
    CASE token = FIXTURE_TEST -> "Bench"
      [] token = UNIT_TEST -> "Unit"
      [] token = BENCHMARK_TEST -> "Fixture"
      [] OTHER -> "panic"

test_kind(token) ==
    CASE token = FIXTURE_TEST -> "Fixture"
      [] token = UNIT_TEST -> "Unit"
      [] token = BENCHMARK_TEST -> "Bench"
      [] OTHER -> "panic"

NoTest == [name |-> <<>>, sources |-> {}, kind |-> "panic", tests |-> {}]

parse_rp_test(tokens) ==
    LET kind == IF Len(tokens) = 0 THEN "panic" ELSE test_kind(tokens[1])
        n == find_test_name(tokens)
        s == find_test_sources(tokens)
    IN IF kind = "panic" \/ ~n.ok \/ ~s.ok
       THEN [ok |-> FALSE, test |-> NoTest]
       ELSE [ok |-> TRUE,
             test |-> [name |-> n.name, sources |-> s.sources, kind |-> kind,
                       tests |-> {}]]

parse_set_sources(keys) == SourceSet_new(keys)


\* a variant that reports the end of the input as a loop-end
tag_at_end_closes(body, i) ==
    IF i <= Len(body) THEN body[i] ELSE [tag |-> "EndForEach", arg |-> <<>>]

\* the tag skip_to_next_tag reports at place i of the text after a loop header
tag_at(body, i) == IF i <= Len(body) THEN body[i] ELSE [tag |-> "EOF", arg |-> <<>>]

\* panic: the call inside parse_foreach that aborted, "none" when none did
NoLoop ==
    [ok |-> FALSE, tests |-> <<>>, maps |-> <<>>, template |-> NoTest, read |-> 0,
     panic |-> "header"]

\* the loop at the end of parse_foreach: one populate, to_map and eval for
\* each file of the set, in the order the HashSet yields them
RECURSIVE foreach_sources(_, _, _, _, _)
foreach_sources(lazy_binding, loop_var, rp_test, order, acc) ==
    IF Len(order) = 0
    THEN acc
    ELSE LET p == populate(lazy_binding, loop_var, Head(order))
             m == to_map(p.bindings)
             e == eval(rp_test, m.map)
         IN IF ~p.ok \/ ~m.ok \/ ~e.ok
            THEN [acc EXCEPT !.ok = FALSE,
                             !.panic = IF ~p.ok THEN "populate"
                                       ELSE IF ~m.ok THEN "to_map" ELSE "eval"]
            ELSE foreach_sources(m.bindings, loop_var, rp_test, Tail(order),
                                 [acc EXCEPT !.tests = Append(@, e.test),
                                             !.maps = Append(@, m.map)])

\* assert!(tag == ParsedTag::RpTest) and assert!(tag == ParsedTag::EndForEach)
loop_has_test(body, at) == tag_at(body, at).tag = "RpTest"
\* a variant that does not look for the loop-end
loop_closed_unchecked(body, at) == TRUE
loop_closed(body, at) == tag_at(body, at + 1).tag = "EndForEach"

\* order: the files of the iterated set in the HashSet's iteration order
parse_foreach(sets, loop_var, input_arg, body, order) ==
    IF input_arg \notin DOMAIN sets
    THEN NoLoop
    ELSE LET first == tag_at(body, 1)
             gfc == first.tag = "GetFileNameComponent"
             t == add_transformed(add(EmptyMap, loop_var), first.arg, loop_var)
             lazy_binding == IF gfc THEN t.bindings ELSE add(EmptyMap, loop_var)
             at == IF gfc THEN 2 ELSE 1
             rp == parse_rp_test(tag_at(body, at).arg)
         IN IF gfc /\ ~t.ok
            THEN [NoLoop EXCEPT !.read = 1, !.panic = "add_transformed"]
            ELSE IF ~loop_has_test(body, at)
            THEN [NoLoop EXCEPT !.read = at, !.panic = "assert_rp_test"]
            ELSE IF ~rp.ok
            THEN [NoLoop EXCEPT !.read = at, !.panic = "parse_rp_test"]
            ELSE IF ~loop_closed(body, at)
            THEN [NoLoop EXCEPT !.read = at + 1, !.template = rp.test,
                                !.panic = "assert_endforeach"]
            ELSE foreach_sources(lazy_binding, loop_var, rp.test, order,
                                 [ok |-> TRUE, tests |-> <<>>, maps |-> <<>>,
                                  template |-> rp.test, read |-> at + 1,
                                  panic |-> "none"])

\* HashMap::insert of each test of a sequence, in order
RECURSIVE insert_all(_, _)
insert_all(map, ts) ==
    IF Len(ts) = 0
    THEN map
    ELSE insert_all(map_insert(map, Head(ts).name, Head(ts)), Tail(ts))

names_of(ts) == [i \in 1..Len(ts) |-> ts[i].name]

\* the Set arm of dispatch_tag_parse: HashMap::insert under the set's name
\* a variant that adds the new members to the ones already declared
install_set_merge(sets, set) ==
    map_insert(sets, set.name,
               [set EXCEPT !.files = @ \cup (IF set.name \in DOMAIN sets
                                              THEN sets[set.name].files ELSE {})])
install_set(sets, set) == map_insert(sets, set.name, set)

\* the loop of parse_tests_from_file: the values in the HashMap's iteration order
\* a variant that stops one entry early
collect_tests_short(map, order) == [i \in 1..(Len(order) - 1) |-> map[order[i]]]
collect_tests(map, order) == [i \in 1..Len(order) |-> map[order[i]]]

\* what the ForEach arm of dispatch_tag_parse leaves in ParseContext.tests
foreach_installed(map, loop) == IF loop.ok THEN insert_all(map, loop.tests) ELSE map

\* what the RpTest arm of dispatch_tag_parse makes of the parsed declaration
resolve_outside_loop(test, sets) ==
    IF needs_source_expansion(test)
    THEN expand_sources(test, sets)
    ELSE [ok |-> TRUE, test |-> test]

(***************************************************************************)
(* The inputs: the constructs a build file of the dialect is made of.      *)
(***************************************************************************)
SetNames == {SRC, LIB}
\* set( ... ): the tokens up to the closing parenthesis
SetDeclarations ==
    {<<>>,
     <<SRC>>,
     <<SRC, a_cc, b_cc>>,
     <<SRC, a_Cc, a_cc>>,
     <<SRC, Subst(LIB)>>,
     <<LIB, a_cc>>,
     <<LIB, b_cc, a_cc, b_cc>>}

\* rp_test( ... ): the tokens up to the closing parenthesis
RpTestBodies ==
    {<<UNIT_TEST, BINARY_NAME, test_ \o Subst(STEM), SOURCES, Subst(F)>>,
     <<UNIT_TEST, BINARY_NAME, test_ \o Subst(STEM), SOURCES, a_cc, b_cc>>,
     <<UNIT_TEST, BINARY_NAME, t_plain, SOURCES, a_cc, b_cc>>,
     <<UNIT_TEST, BINARY_NAME, t_plain, SOURCES, Subst(F)>>,
     <<FIXTURE_TEST, BINARY_NAME, test_ \o Subst(F), SOURCES, dir_ \o Subst(F), Subst(F)>>,
     <<BENCHMARK_TEST, BINARY_NAME, u_plain, SOURCES, dir_ \o Subst(F), Subst(SRC)>>,
     <<UNIT_TEST, BINARY_NAME, u_plain, SOURCES, Subst(SRC), a_cc, Subst(LIB),
       LIBRARIES, LIB>>,
     <<UNIT_TEST, BINARY_NAME, t_plain, SOURCES, Subst(SRC)>>,
     <<LIBRARIES, BINARY_NAME, t_plain, SOURCES, a_cc>>,
     <<UNIT_TEST, SOURCES, a_cc>>,
     <<UNIT_TEST, BINARY_NAME, t_plain>>,
     <<UNIT_TEST, SOURCES, a_cc, BINARY_NAME>>}

LoopVars == {F}
DerivedNames == {STEM, F}

Tag(tag, arg) == [tag |-> tag, arg |-> arg]
RpTestTags == {Tag("RpTest", toks) : toks \in RpTestBodies}
GfcTags == {Tag("GetFileNameComponent", d) : d \in DerivedNames}
OtherTags == {Tag("Set", <<>>), Tag("ForEach", <<>>), Tag("EndForEach", <<>>)}
\* the tags that follow a loop header, as far as parse_foreach reads them; a
\* text that ends early ends the sequence
LoopBodies ==
    LET heads == {<<>>} \cup {<<g>> : g \in GfcTags}
        tails == {<<>>} \cup {<<x>> : x \in OtherTags \cup GfcTags}
                    \cup {<<r>> : r \in RpTestTags}
                    \cup {<<r, x>> : r \in RpTestTags, x \in OtherTags}
                    \cup {<<r, x>> : r \in RpTestTags,
                                     x \in GfcTags \cup {Tag("RpTest", <<>>)}}
    IN {h \o tl : h \in heads, tl \in tails}

(***************************************************************************)
(* mod.rs: parse_unit and parse_tests_from_file; parsers.rs:               *)
(* dispatch_tag_parse, one action for each tag skip_to_next_tag reports.   *)
(***************************************************************************)
NoStep == [tag |-> "none"]
NoCall == [name |-> "none", ok |-> TRUE]
NoScan == [tag |-> "none"]
NoParse == [done |-> FALSE]

Init ==
    /\ bindings = EmptyMap
    /\ call = NoCall
    /\ calls = 0
    /\ text = <<>>
    /\ scanned = NoScan
    /\ rp_tokens = <<>>
    /\ rp_parsed = NoParse
    /\ source_sets = EmptyMap
    /\ tests = EmptyMap
    /\ status = "scanning"
    /\ remaining \in 0..MaxTags
    /\ step = NoStep
    /\ discovery = <<>>
    /\ output = <<>>
    /\ replaced = EmptyMap

Scanning == status = "scanning" /\ remaining > 0

\* a variant that starts the test map anew with every set declaration
DispatchSet_clearing ==
    /\ Scanning
    /\ \E keys \in SetDeclarations :
          LET r == parse_set_sources(keys)
          IN /\ step' = [tag |-> "Set", keys |-> keys, ok |-> r.ok]
             /\ source_sets' = IF r.ok THEN install_set(source_sets, r.set) ELSE source_sets
             /\ status' = IF r.ok THEN "scanning" ELSE "aborted"
    /\ tests' = EmptyMap
    /\ remaining' = remaining - 1
    /\ UNCHANGED <<discovery, output, replaced, bindings, call, calls, text, scanned,
                   rp_tokens, rp_parsed>>

DispatchSet ==
    /\ Scanning
    /\ \E keys \in SetDeclarations :
          LET r == parse_set_sources(keys)
          IN /\ step' = [tag |-> "Set", keys |-> keys, ok |-> r.ok]
             /\ source_sets' = IF r.ok
                               THEN install_set(source_sets, r.set)
                               ELSE source_sets
             /\ replaced' = IF r.ok /\ r.set.name \in DOMAIN source_sets
                            THEN map_insert(replaced, r.set.name,
                                    source_sets[r.set.name].files \cup
                                    (IF r.set.name \in DOMAIN replaced
                                     THEN replaced[r.set.name] ELSE {}))
                            ELSE replaced
             /\ status' = IF r.ok THEN "scanning" ELSE "aborted"
    /\ remaining' = remaining - 1
    /\ UNCHANGED <<tests, discovery, output, bindings, call, calls, text, scanned, rp_tokens, rp_parsed>>

DispatchForEach ==
    /\ Scanning
    /\ \E loop_var \in LoopVars, input_arg \in SetNames, body \in LoopBodies :
          \E order \in IF input_arg \in DOMAIN source_sets
                       THEN Perms(source_sets[input_arg].files)
                       ELSE {<<>>} :
             LET loop == parse_foreach(source_sets, loop_var, input_arg, body, order)
             IN /\ step' = [tag |-> "ForEach", loop_var |-> loop_var,
                            input_arg |-> input_arg,
                            body |-> SubSeq(body, 1, IF loop.read < Len(body)
                                                      THEN loop.read ELSE Len(body)),
                            order |-> order, loop |-> loop]
                /\ tests' = foreach_installed(tests, loop)
                /\ discovery' = IF loop.ok THEN discovery \o names_of(loop.tests)
                                ELSE discovery
                /\ status' = IF loop.ok THEN "scanning" ELSE "aborted"
    /\ remaining' = remaining - 1
    /\ UNCHANGED <<source_sets, output, replaced, bindings, call, calls, text, scanned, rp_tokens, rp_parsed>>

\* a variant that skips the loop-end
DispatchEndForEach_skipped ==
    /\ Scanning
    /\ step' = [tag |-> "EndForEach"]
    /\ remaining' = remaining - 1
    /\ UNCHANGED <<source_sets, tests, status, discovery, output, replaced,
                   bindings, call, calls, text, scanned, rp_tokens, rp_parsed>>

DispatchEndForEach ==
    /\ Scanning
    /\ step' = [tag |-> "EndForEach"]
    /\ status' = "aborted"
    /\ remaining' = remaining - 1
    /\ UNCHANGED <<source_sets, tests, discovery, output, replaced, bindings, call, calls, text, scanned, rp_tokens, rp_parsed>>

DispatchRpTest ==
    /\ Scanning
    /\ \E toks \in RpTestBodies :
          LET rp == parse_rp_test(toks)
              r == IF rp.ok THEN resolve_outside_loop(rp.test, source_sets)
                   ELSE [ok |-> FALSE, test |-> NoTest]
          IN /\ step' = [tag |-> "RpTest", toks |-> toks, parsed |-> rp, ok |-> r.ok]
             /\ tests' = IF r.ok THEN map_insert(tests, r.test.name, r.test) ELSE tests
             /\ discovery' = IF r.ok THEN Append(discovery, r.test.name) ELSE discovery
             /\ status' = IF r.ok THEN "scanning" ELSE "aborted"
    /\ remaining' = remaining - 1
    /\ UNCHANGED <<source_sets, output, replaced, bindings, call, calls, text, scanned, rp_tokens, rp_parsed>>

\* a variant that hands the input back as it got it
DispatchGetFileNameComponent_unconsumed ==
    /\ Scanning
    /\ step' = [tag |-> "GetFileNameComponent"]
    /\ UNCHANGED <<source_sets, tests, status, remaining, discovery, output, replaced,
                   bindings, call, calls, text, scanned, rp_tokens, rp_parsed>>

\* a variant that treats the declaration outside a loop as fatal
DispatchGetFileNameComponent_fatal ==
    /\ Scanning
    /\ step' = [tag |-> "GetFileNameComponent"]
    /\ status' = "aborted"
    /\ remaining' = remaining - 1
    /\ UNCHANGED <<source_sets, tests, discovery, output, replaced,
                   bindings, call, calls, text, scanned, rp_tokens, rp_parsed>>

DispatchGetFileNameComponent ==
    /\ Scanning
    /\ step' = [tag |-> "GetFileNameComponent"]
    /\ remaining' = remaining - 1
    /\ UNCHANGED <<source_sets, tests, status, discovery, output, replaced,
                   bindings, call, calls, text, scanned, rp_tokens, rp_parsed>>

\* end of input: parse_unit returns, parse_tests_from_file moves the values of
\* the HashMap into a Vec in the HashMap's iteration order
ReturnTests ==
    /\ status = "scanning"
    /\ remaining = 0
    /\ \E order \in Perms(DOMAIN tests) :
          output' = collect_tests(tests, order)
    /\ status' = "done"
    /\ step' = [tag |-> "EOF"]
    /\ UNCHANGED <<source_sets, tests, remaining, discovery, replaced,
                   bindings, call, calls, text, scanned, rp_tokens, rp_parsed>>

Next ==
    \/ DispatchSet
    \/ DispatchForEach
    \/ DispatchEndForEach
    \/ DispatchRpTest
    \/ DispatchGetFileNameComponent
    \/ ReturnTests

Spec == Init /\ [][Next]_vars

\* every pass of parse_unit's loop is taken as long as input is left
FairSpec == Spec /\ WF_vars(Next)

(***************************************************************************)
(* lazy_binding.rs driven through its four methods in any order, as a      *)
(* caller of the type may drive it.  A panic ends the run.                 *)
(***************************************************************************)
TableKeys == {F, STEM}
TableValues == {a_cc, a_Cc}

TableInit ==
    /\ bindings = EmptyMap
    /\ call = NoCall
    /\ calls = 0
    /\ text = <<>>
    /\ scanned = NoScan
    /\ rp_tokens = <<>>
    /\ rp_parsed = NoParse
    /\ text = <<>>
    /\ scanned = NoScan
    /\ rp_tokens = <<>>
    /\ rp_parsed = NoParse
    /\ source_sets = EmptyMap
    /\ tests = EmptyMap
    /\ status = "idle"
    /\ remaining = 0
    /\ step = NoStep
    /\ discovery = <<>>
    /\ output = <<>>
    /\ replaced = EmptyMap

TableLive == call.ok /\ calls < MaxCalls

CallAdd ==
    /\ TableLive
    /\ \E key \in TableKeys :
          /\ bindings' = add(bindings, key)
          /\ call' = [name |-> "add", key |-> key, ok |-> TRUE,
                      before |-> bindings, prev |-> call.name]
    /\ calls' = calls + 1
    /\ UNCHANGED <<parse_vars, scan_vars, rp_vars>>

CallAddTransformed ==
    /\ TableLive
    /\ \E key \in TableKeys, target \in TableKeys :
          LET r == add_transformed(bindings, key, target)
          IN /\ bindings' = r.bindings
             /\ call' = [name |-> "add_transformed", key |-> key, target |-> target,
                         ok |-> r.ok, before |-> bindings, prev |-> call.name]
    /\ calls' = calls + 1
    /\ UNCHANGED <<parse_vars, scan_vars, rp_vars>>

CallPopulate ==
    /\ TableLive
    /\ \E key \in TableKeys, val \in TableValues :
          LET r == populate(bindings, key, val)
          IN /\ bindings' = r.bindings
             /\ call' = [name |-> "populate", key |-> key, val |-> val,
                         ok |-> r.ok, before |-> bindings, prev |-> call.name]
    /\ calls' = calls + 1
    /\ UNCHANGED <<parse_vars, scan_vars, rp_vars>>

CallToMap ==
    /\ TableLive
    /\ LET r == to_map(bindings)
       IN /\ bindings' = r.bindings
          /\ call' = [name |-> "to_map", ok |-> r.ok, map |-> r.map,
                      before |-> bindings, prev |-> call.name]
    /\ calls' = calls + 1
    /\ UNCHANGED <<parse_vars, scan_vars, rp_vars>>

TableNext ==
    \/ CallAdd
    \/ CallAddTransformed
    \/ CallPopulate
    \/ CallToMap

TableSpec == TableInit /\ [][TableNext]_vars

(***************************************************************************)
(* parsers.rs: skip_to_next_tag, on the characters of the text.            *)
(***************************************************************************)
kw_set == <<"s", "e", "t", "(">>
kw_set_sp == <<"s", "e", "t", " ", "(">>
kw_foreach == <<"f", "o", "r", "e", "a", "c", "h", "(">>
kw_foreach_sp == <<"f", "o", "r", "e", "a", "c", "h", " ", "(">>
kw_endforeach == <<"e", "n", "d", "f", "o", "r", "e", "a", "c", "h", "(", ")">>
kw_endforeach_sp == <<"e", "n", "d", "f", "o", "r", "e", "a", "c", "h", " ", "(", ")">>
kw_rp_test == <<"r", "p", "_", "t", "e", "s", "t", "(">>
kw_rp_test_sp == <<"r", "p", "_", "t", "e", "s", "t", " ", "(">>
kw_gfc ==
    <<"g", "e", "t", "_", "f", "i", "l", "e", "n", "a", "m", "e", "_", "c",
      "o", "m", "p", "o", "n", "e", "n", "t", "(">>
kw_gfc_sp ==
    <<"g", "e", "t", "_", "f", "i", "l", "e", "n", "a", "m", "e", "_", "c",
      "o", "m", "p", "o", "n", "e", "n", "t", " ", "(">>

\* the tags of alt(( ... )) in the order alt tries them; eof comes last
known_terms ==
    <<kw_set, kw_set_sp, kw_foreach, kw_foreach_sp, kw_endforeach, kw_endforeach_sp,
      kw_rp_test, kw_rp_test_sp, kw_gfc, kw_gfc_sp>>

LowerChars ==
    {"a", "b", "c", "d", "e", "f", "g", "h", "i", "j", "k", "l", "m",
     "n", "o", "p", "q", "r", "s", "t", "u", "v", "w", "x", "y", "z"}

\* a variant that knows the keywords without the interior space only
alt_without_space(rest) ==
    LET hits == {j \in 1..Len(known_terms) : j % 2 = 1 /\ starts_with(rest, known_terms[j])}
    IN IF hits # {}
       THEN [ok |-> TRUE, res |-> known_terms[Min(hits)]]
       ELSE [ok |-> Len(rest) = 0, res |-> <<>>]

\* alt((tag(..), ..., eof)) at the head of rest: the first alternative that matches
alt_known_terms(rest) ==
    LET hits == {j \in 1..Len(known_terms) : starts_with(rest, known_terms[j])}
    IN IF hits # {}
       THEN [ok |-> TRUE, res |-> known_terms[Min(hits)]]
       ELSE [ok |-> Len(rest) = 0, res |-> <<>>]

\* a variant that takes a keyword only where no letter stands before it
RECURSIVE many_till_whole_words(_, _)
many_till_whole_words(input, i) ==
    LET rest == SubSeq(input, i, Len(input))
        a == alt_known_terms(rest)
        word_start == i = 1 \/ input[i - 1] \notin LowerChars \/ Len(rest) = 0
    IN IF a.ok /\ word_start
       THEN [ok |-> TRUE, rem |-> SubSeq(rest, Len(a.res) + 1, Len(rest)), res |-> a.res]
       ELSE IF Len(rest) = 0
       THEN [ok |-> FALSE, rem |-> rest, res |-> <<>>]
       ELSE many_till_whole_words(input, i + 1)

\* many_till(map(anychar, drop), known_terms) with i - 1 characters dropped
RECURSIVE many_till(_, _)
many_till(input, i) ==
    LET rest == SubSeq(input, i, Len(input))
        a == alt_known_terms(rest)
    IN IF a.ok
       THEN [ok |-> TRUE, rem |-> SubSeq(rest, Len(a.res) + 1, Len(rest)), res |-> a.res]
       ELSE IF Len(rest) = 0
       THEN [ok |-> FALSE, rem |-> rest, res |-> <<>>]
       ELSE many_till(input, i + 1)

\* ParsedTag::from_str
from_str(s) ==
    CASE s = kw_set \/ s = kw_set_sp -> "Set"
      [] s = kw_foreach \/ s = kw_foreach_sp -> "ForEach"
      [] s = kw_endforeach \/ s = kw_endforeach_sp -> "EndForEach"
      [] s = kw_rp_test \/ s = kw_rp_test_sp -> "RpTest"
      [] s = kw_gfc \/ s = kw_gfc_sp -> "GetFileNameComponent"
      [] s = <<>> -> "EOF"
      [] OTHER -> "panic"

skip_to_next_tag(input) ==
    LET r == many_till(input, 1)
    IN [ok |-> r.ok /\ from_str(r.res) # "panic", rem |-> r.rem, tag |-> from_str(r.res)]

\* the texts: up to MaxPieces pieces, keywords and what stands between them
Pieces ==
    {known_terms[j] : j \in 1..Len(known_terms)}
        \cup {<<"x">>, <<" ">>, <<"(">>, <<")">>, <<"e", "n", "d">>, <<"s", "e", "t">>,
              <<"e", "n", "d">> \o kw_foreach}

RECURSIVE Concats(_)
Concats(n) ==
    IF n = 0
    THEN {<<>>}
    ELSE LET shorter == Concats(n - 1)
         IN shorter \cup {s \o p : s \in shorter, p \in Pieces}

ScanInit ==
    /\ text \in Concats(MaxPieces)
    /\ scanned = NoScan
    /\ rp_tokens = <<>>
    /\ rp_parsed = NoParse
    /\ bindings = EmptyMap
    /\ call = NoCall
    /\ calls = 0
    /\ source_sets = EmptyMap
    /\ tests = EmptyMap
    /\ status = "idle"
    /\ remaining = 0
    /\ step = NoStep
    /\ discovery = <<>>
    /\ output = <<>>
    /\ replaced = EmptyMap

\* one call of skip_to_next_tag on the text the call before left
SkipToNextTag ==
    /\ scanned.tag \notin {"EOF", "panic"}
    /\ LET r == skip_to_next_tag(text)
       IN /\ scanned' = [tag |-> r.tag, ok |-> r.ok, rem |-> r.rem, from |-> text]
          /\ text' = r.rem
    /\ UNCHANGED <<parse_vars, table_vars, rp_vars>>

ScanNext == SkipToNextTag

ScanSpec == ScanInit /\ [][ScanNext]_vars

(***************************************************************************)
(* parsers.rs: parse_rp_test on the token lists separated_list1 can cut.   *)
(***************************************************************************)
TokenPool == {UNIT_TEST, BINARY_NAME, SOURCES, LIB, t_plain, a_cc, <<>>}

\* parse_identifier yields an empty token only where the list then ends
RECURSIVE TokenLists(_)
TokenLists(n) ==
    IF n = 0
    THEN {<<>>}
    ELSE LET shorter == TokenLists(n - 1)
         IN shorter \cup {Append(l, tok) : l \in {x \in shorter : Len(x) = 0 \/ x[Len(x)] # <<>>},
                                          tok \in TokenPool}

RpInit ==
    /\ rp_tokens \in {l \in TokenLists(MaxTokens) : Len(l) >= 1}
    /\ rp_parsed = NoParse
    /\ text = <<>>
    /\ scanned = NoScan
    /\ bindings = EmptyMap
    /\ call = NoCall
    /\ calls = 0
    /\ source_sets = EmptyMap
    /\ tests = EmptyMap
    /\ status = "idle"
    /\ remaining = 0
    /\ step = NoStep
    /\ discovery = <<>>
    /\ output = <<>>
    /\ replaced = EmptyMap

ParseRpTest ==
    /\ ~rp_parsed.done
    /\ LET r == parse_rp_test(rp_tokens)
       IN rp_parsed' = [done |-> TRUE, ok |-> r.ok, test |-> r.test]
    /\ UNCHANGED <<parse_vars, table_vars, scan_vars, rp_tokens>>

RpNext == ParseRpTest

RpSpec == RpInit /\ [][RpNext]_vars


(***************************************************************************)
(* Notions the properties below are stated in.                             *)
(***************************************************************************)
\* a ${...} placeholder occurs somewhere in the string
HasPlaceholder(s) ==
    \E i \in Occurrences(s, DollarBrace), j \in Occurrences(s, CloseBrace) : j >= i + 2

\* the dispatcher has just expanded a loop
LoopDone == step.tag = "ForEach" /\ step.loop.ok
IteratedFiles == source_sets[step.input_arg].files
LoopNames == Range(names_of(step.loop.tests))
HasDerivedName ==
    /\ Len(step.body) >= 1
    /\ step.body[1].tag = "GetFileNameComponent"
LiteralTemplate ==
    /\ LoopDone
    /\ \A s \in step.loop.template.sources : ~HasPlaceholder(s)

test_a == test_ \o <<"a">>
test_b == test_ \o <<"b">>
Unit(name, sources) == [name |-> name, sources |-> sources, kind |-> "Unit", tests |-> {}]

(***************************************************************************)
(* C1.  As claimed: after a loop over a declared set S whose template's K  *)
(* sources hold no placeholder, the test map holds exactly |S|             *)
(* declarations produced by that loop, each with the template's K sources. *)
(***************************************************************************)
C1_ExactlyOnePerMember ==
    LiteralTemplate =>
        LET produced == {n \in DOMAIN tests :
                            \E i \in 1..Len(step.loop.tests) : tests[n] = step.loop.tests[i]}
        IN /\ Cardinality(produced) = Cardinality(IteratedFiles)
           /\ \A n \in produced : tests[n].sources = step.loop.template.sources

(***************************************************************************)
(* C1, amended.  Such a loop produces exactly |S| resolved declarations,   *)
(* one for each member, each with exactly the template's K sources, and    *)
(* inserts them under their substituted names: the test map then holds,    *)
(* for every substituted name, a declaration with these K sources, and     *)
(* holds |S| of them when the members' substituted names are distinct.     *)
(***************************************************************************)
C1_OnePerSubstitutedName ==
    LiteralTemplate =>
        /\ Len(step.loop.tests) = Cardinality(IteratedFiles)
        /\ \A i \in 1..Len(step.loop.tests) :
              /\ step.loop.tests[i].sources = step.loop.template.sources
              /\ step.loop.tests[i].name \in DOMAIN tests
              /\ tests[step.loop.tests[i].name].sources = step.loop.template.sources
        /\ (Cardinality(LoopNames) = Cardinality(IteratedFiles) =>
              Cardinality({n \in DOMAIN tests : n \in LoopNames}) = Cardinality(IteratedFiles))

C1_Witness ==
    /\ LiteralTemplate
    /\ Cardinality(IteratedFiles) = 2
    /\ Cardinality(step.loop.template.sources) = 2
    /\ Cardinality(LoopNames) = 2
    /\ \A n \in LoopNames : tests[n].sources = {a_cc, b_cc}

(***************************************************************************)
(* C2.  The round trip: set(SRC a.cc b.cc), then a loop over SRC with      *)
(* variable F, derived name STEM and the unit test test_${STEM} with       *)
(* source ${F}, leaves exactly test_a with {a.cc} and test_b with {b.cc}.  *)
(***************************************************************************)
C2_Scenario ==
    /\ step.tag = "ForEach"
    /\ step.loop_var = F
    /\ step.input_arg = SRC
    /\ SRC \in DOMAIN source_sets
    /\ source_sets[SRC].files = {a_cc, b_cc}
    /\ step.body = <<Tag("GetFileNameComponent", STEM),
                     Tag("RpTest", <<UNIT_TEST, BINARY_NAME, test_ \o Subst(STEM),
                                     SOURCES, Subst(F)>>),
                     Tag("EndForEach", <<>>)>>
    /\ Len(discovery) <= 2

C2_RoundTrip ==
    C2_Scenario =>
        /\ status = "scanning"
        /\ tests = (test_a :> Unit(test_a, {a_cc})) @@ (test_b :> Unit(test_b, {b_cc}))

(***************************************************************************)
(* C3.  In every loop with a derived-name declaration, the value           *)
(* materialized for the derived name in the iteration of member m is m     *)
(* with every ".Cc" removed (m itself when it has none), m being the       *)
(* member bound in that same iteration.                                    *)
(***************************************************************************)
C3_DerivedFromCurrentMember ==
    (LoopDone /\ HasDerivedName) =>
        \A i \in 1..Len(step.loop.maps) :
            step.loop.maps[i][step.body[1].arg] = replace(step.order[i], DotCc, <<>>)


(***************************************************************************)
(* C4.  A test declaration outside any loop with whole-token placeholders  *)
(* naming declared sets is installed with the members of those sets in     *)
(* place of the placeholders, beside its literal sources, each once.       *)
(***************************************************************************)
OutsideTestInstalled == step.tag = "RpTest" /\ step.ok
SetRefs(sources) == {s \in sources : is_whole_placeholder(s)}
RefName(s) == skip2_take_len3(s)

C4_ExpandsToMembers ==
    (OutsideTestInstalled /\ SetRefs(step.parsed.test.sources) # {}) =>
        LET raw == step.parsed.test.sources
            installed == tests[step.parsed.test.name].sources
        IN \A x \in installed \cup raw \cup UNION {source_sets[n].files : n \in DOMAIN source_sets} :
              x \in installed <=>
                 \/ x \in raw \ SetRefs(raw)
                 \/ \E s \in SetRefs(raw) : x \in source_sets[RefName(s)].files

C4_Witness ==
    /\ OutsideTestInstalled
    /\ step.parsed.test.sources = {Subst(SRC), a_cc, Subst(LIB)}
    /\ source_sets[SRC].files = {a_cc, b_cc}
    /\ a_cc \in source_sets[LIB].files
    /\ tests[step.parsed.test.name].sources = {a_cc, b_cc}

(***************************************************************************)
(* C5.  A set declaration replaces the earlier declaration of its name:    *)
(* the table then holds only the new members, the declarations already in  *)
(* the test map stay as they are, and a later loop or expansion over the   *)
(* name uses the members of the last declaration only.                     *)
(***************************************************************************)
Stale(n) == IF n \in DOMAIN replaced THEN replaced[n] \ source_sets[n].files ELSE {}

C5_LastDeclarationWins ==
    [][/\ (step'.tag = "Set" /\ step'.ok) =>
              /\ tests' = tests
              /\ source_sets'[step'.keys[1]].files =
                     {step'.keys[i] : i \in 2..Len(step'.keys)}
              /\ \A n \in DOMAIN source_sets \ {step'.keys[1]} :
                     source_sets'[n] = source_sets[n]
       /\ (step'.tag = "ForEach" /\ step'.loop.ok) =>
              {step'.loop.maps[i][step'.loop_var] : i \in 1..Len(step'.loop.maps)}
                  = source_sets[step'.input_arg].files
       /\ (step'.tag = "RpTest" /\ step'.ok) =>
              LET raw == step'.parsed.test.sources
                  installed == tests'[step'.parsed.test.name].sources
              IN \A s \in SetRefs(raw) :
                    /\ source_sets[RefName(s)].files \subseteq installed
                    /\ \A x \in Stale(RefName(s)) \cap installed :
                          \/ x \in raw
                          \/ \E s2 \in SetRefs(raw) : x \in source_sets[RefName(s2)].files
      ]_vars

C5_Witness ==
    /\ step.tag = "Set"
    /\ step.ok
    /\ Stale(step.keys[1]) # {}
    /\ \E n \in DOMAIN tests :
          /\ tests[n].sources \cap Stale(step.keys[1]) # {}
          /\ tests[n].sources \cap source_sets[step.keys[1]].files = {}

(***************************************************************************)
(* C6.  A loop-start followed by loop-end with no test declaration between *)
(* them aborts the parse; a loop changes the test map only when header,    *)
(* template and loop-end were all read, and a parse that aborts inside a   *)
(* loop leaves the test map as it was before the loop.                     *)
(***************************************************************************)
TemplatePlace(body) ==
    IF Len(body) >= 1 /\ body[1].tag = "GetFileNameComponent" THEN 2 ELSE 1

C6_NoPartialLoop ==
    [][step'.tag = "ForEach" =>
          /\ status' = "aborted" => (tests' = tests /\ discovery' = discovery)
          /\ tag_at(step'.body, TemplatePlace(step'.body)).tag = "EndForEach"
                => status' = "aborted"
          /\ tests' # tests =>
                /\ tag_at(step'.body, TemplatePlace(step'.body)).tag = "RpTest"
                /\ tag_at(step'.body, TemplatePlace(step'.body) + 1).tag = "EndForEach"
      ]_vars

C6_Witness ==
    /\ step.tag = "ForEach"
    /\ status = "aborted"
    /\ step.input_arg \in DOMAIN source_sets
    /\ source_sets[step.input_arg].files # {}
    /\ tag_at(step.body, TemplatePlace(step.body)).tag = "EndForEach"
    /\ tests # EmptyMap

(***************************************************************************)
(* C7.  In every completed parse no source reference of a declaration of   *)
(* the output holds a ${...} placeholder.                                  *)
(***************************************************************************)
C7_SourcesConcrete ==
    status = "done" =>
        \A i \in 1..Len(output) : \A s \in output[i].sources : ~HasPlaceholder(s)

(***************************************************************************)
(* C8.  In every completed parse no name of a declaration of the output,   *)
(* and no key of the test map, holds a ${...} placeholder.                 *)
(***************************************************************************)
C8_NamesConcrete ==
    status = "done" =>
        /\ \A i \in 1..Len(output) : ~HasPlaceholder(output[i].name)
        /\ \A n \in DOMAIN tests : ~HasPlaceholder(n)

(***************************************************************************)
(* C9.  As claimed: the returned sequence lists the declarations in        *)
(* discovery order; of two declarations that were each inserted once, the  *)
(* one inserted first comes first.                                         *)
(***************************************************************************)
InsertedOnce(n) == Cardinality({i \in 1..Len(discovery) : discovery[i] = n}) = 1
PlaceInOutput(n) == CHOOSE i \in 1..Len(output) : output[i].name = n

C9_DiscoveryOrder ==
    status = "done" =>
        \A i, j \in 1..Len(discovery) :
            (i < j /\ InsertedOnce(discovery[i]) /\ InsertedOnce(discovery[j])) =>
                PlaceInOutput(discovery[i]) < PlaceInOutput(discovery[j])

(***************************************************************************)
(* C9, amended.  The returned sequence holds every declaration of the test *)
(* map exactly once, an overwritten one in its last version only; its      *)
(* order is the HashMap's iteration order, not the discovery order.        *)
(***************************************************************************)
C9_OutputIsTheMap ==
    status = "done" =>
        /\ Len(output) = Cardinality(DOMAIN tests)
        /\ \A n \in DOMAIN tests :
              \E i \in 1..Len(output) :
                  /\ output[i] = tests[n]
                  /\ \A j \in 1..Len(output) : output[j].name = n => j = i

C9_Witness ==
    /\ status = "done"
    /\ Len(output) = 2
    /\ Len(discovery) = 2
    /\ output[1].name = discovery[2]
    /\ output[2].name = discovery[1]
    /\ discovery[1] # discovery[2]

(***************************************************************************)
(* C10.  A reference to a set that is not declared at that place of the    *)
(* input aborts the parse: a loop-start naming it aborts at the header,    *)
(* with nothing of the body read, and a test declaration outside a loop    *)
(* with a whole-token placeholder naming it aborts with nothing installed. *)
(***************************************************************************)
C10_UndeclaredSetAborts ==
    [][/\ (step'.tag = "ForEach" /\ step'.input_arg \notin DOMAIN source_sets) =>
              /\ status' = "aborted"
              /\ step'.loop.read = 0
              /\ tests' = tests
       /\ (/\ step'.tag = "RpTest"
           /\ step'.parsed.ok
           /\ \E s \in SetRefs(step'.parsed.test.sources) :
                 RefName(s) \notin DOMAIN source_sets) =>
              /\ status' = "aborted"
              /\ tests' = tests
      ]_vars

C10_Witness ==
    /\ step.tag = "RpTest"
    /\ status = "aborted"
    /\ step.parsed.ok
    /\ SRC \in DOMAIN source_sets
    /\ LIB \notin DOMAIN source_sets
    /\ Subst(SRC) \in step.parsed.test.sources
    /\ Subst(LIB) \in step.parsed.test.sources

(***************************************************************************)
(* C11.  After the loop header and at most one derived-name declaration,   *)
(* the next tag must be a test declaration and the tag after it loop-end:  *)
(* a set declaration, a further derived-name declaration, a further test   *)
(* declaration, a further loop-start or the end of the input in either     *)
(* place aborts the parse, so a loop that expands has read exactly the     *)
(* template and the loop-end, and a nested loop never expands.             *)
(***************************************************************************)
C11_LoopShape ==
    [][(step'.tag = "ForEach" /\ step'.input_arg \in DOMAIN source_sets) =>
          LET body == step'.body
              at == TemplatePlace(body)
          IN /\ (Len(body) < at \/ body[at].tag # "RpTest") =>
                    /\ status' = "aborted"
                    /\ step'.loop.panic = "assert_rp_test"
             /\ (/\ Len(body) >= at
                 /\ body[at].tag = "RpTest"
                 /\ parse_rp_test(body[at].arg).ok
                 /\ (Len(body) < at + 1 \/ body[at + 1].tag # "EndForEach")) =>
                    /\ status' = "aborted"
                    /\ step'.loop.panic = "assert_endforeach"
             /\ status' # "aborted" =>
                    /\ Len(body) = at + 1
                    /\ body[at].tag = "RpTest"
                    /\ body[at + 1].tag = "EndForEach"
                    /\ \A i \in 1..Len(body) : body[i].tag # "ForEach"
      ]_vars

C11_Witness ==
    /\ step.tag = "ForEach"
    /\ status = "aborted"
    /\ step.loop.panic = "assert_endforeach"
    /\ HasDerivedName
    /\ Len(step.body) = 3
    /\ step.body[3].tag = "ForEach"
    /\ source_sets[step.input_arg].files # {}

(***************************************************************************)
(* C12.  A loop-end that reaches the dispatcher (no loop is open there: an *)
(* open loop reads its own loop-end) aborts the parse; it is never         *)
(* skipped, and nothing is installed by it.                                *)
(***************************************************************************)
C12_WildEndForEachAborts ==
    [][step'.tag = "EndForEach" =>
          /\ status' = "aborted"
          /\ tests' = tests
          /\ source_sets' = source_sets
      ]_vars

C12_Witness ==
    /\ step.tag = "EndForEach"
    /\ status = "aborted"
    /\ tests # EmptyMap
    /\ remaining > 0

(***************************************************************************)
(* C13.  Materializing a binding table does not change it: the entries are *)
(* the same before and after every call of to_map, and two consecutive     *)
(* calls with no add, add_transformed or populate between them return      *)
(* equal mappings.                                                         *)
(***************************************************************************)
C13_MaterializeReadsOnly ==
    [][call'.name = "to_map" =>
          /\ bindings' = bindings
          /\ call.name = "to_map" =>
                /\ call'.ok = call.ok
                /\ call'.map = call.map
      ]_vars

C13_Witness ==
    /\ call.name = "to_map"
    /\ call.prev = "to_map"
    /\ call.ok
    /\ DOMAIN bindings = {F, STEM}
    /\ bindings[STEM].kind = "IndirectBinding"
    /\ call.map[F] # call.map[STEM]

(***************************************************************************)
(* C14.  Every parse terminates, completed at the end of the input or      *)
(* aborted: each pass of the scan-and-dispatch loop leaves less input than *)
(* it found or stops the parse, so no pass repeats without consuming.      *)
(***************************************************************************)
C14_Terminates ==
    /\ [][remaining' < remaining \/ status' # "scanning"]_vars
    /\ <>(status \in {"done", "aborted"})

C14_Witness ==
    /\ status = "done"
    /\ remaining = 0
    /\ Len(discovery) = MaxTags
    /\ step.tag = "EOF"

(***************************************************************************)
(* C15.  Whenever the loop expander materializes the binding table, every  *)
(* entry is concrete or derived from a concrete target: the loop variable  *)
(* is bound before each to_map, so no loop the dispatcher runs aborts in   *)
(* populate or in to_map, and every iteration of a loop that was read to   *)
(* its loop-end yields a value for the loop variable and for the derived   *)
(* name, also when the derived name is the loop variable's name.           *)
(***************************************************************************)
LoopNamesBound ==
    {step.loop_var} \cup (IF HasDerivedName THEN {step.body[1].arg} ELSE {})

C15_TableResolvable ==
    step.tag = "ForEach" =>
        /\ step.loop.panic \notin {"add_transformed", "populate", "to_map"}
        /\ \A i \in 1..Len(step.loop.maps) :
              /\ DOMAIN step.loop.maps[i] = LoopNamesBound
              /\ step.loop.maps[i][step.loop_var] = step.order[i]
        /\ step.loop.panic = "none" => Len(step.loop.maps) = Len(step.order)

C15_Witness ==
    /\ LoopDone
    /\ HasDerivedName
    /\ step.body[1].arg = step.loop_var
    /\ Len(step.loop.maps) = 2

(***************************************************************************)
(* C16.  As claimed: every tag the dispatcher receives is handled by its   *)
(* construct parser or aborts the parse; none is a silent no-op, in        *)
(* particular not a derived-name declaration outside a loop.               *)
(***************************************************************************)
ConstructParsed ==
    CASE step.tag = "Set" -> step.ok /\ step.keys[1] \in DOMAIN source_sets
      [] step.tag = "ForEach" ->
            /\ step.loop.ok
            /\ \A i \in 1..Len(step.loop.tests) : step.loop.tests[i].name \in DOMAIN tests
      [] step.tag = "RpTest" -> step.ok /\ discovery[Len(discovery)] \in DOMAIN tests
      [] OTHER -> FALSE

C16_NoSilentNoOp ==
    [][step'.tag \in {"Set", "ForEach", "EndForEach", "RpTest", "GetFileNameComponent"} =>
          (status' = "aborted" \/ ConstructParsed')
      ]_vars

(***************************************************************************)
(* C16, amended.  A set declaration, a loop-start, a loop-end and a test   *)
(* declaration are handled by their construct parser or abort the parse;   *)
(* a derived-name declaration outside a loop is skipped: the parse goes    *)
(* on behind its tag with the set table and the test map as they were.     *)
(***************************************************************************)
C16_OnlyDerivedNameSkipped ==
    [][/\ step'.tag \in {"Set", "ForEach", "EndForEach", "RpTest"} =>
              (status' = "aborted" \/ ConstructParsed')
       /\ step'.tag = "GetFileNameComponent" =>
              /\ status' = "scanning"
              /\ source_sets' = source_sets
              /\ tests' = tests
              /\ remaining' < remaining
      ]_vars

C16_Witness ==
    /\ step.tag = "GetFileNameComponent"
    /\ status = "scanning"
    /\ tests # EmptyMap
    /\ source_sets # EmptyMap

(***************************************************************************)
(* C17.  As claimed: inside a loop body, a whole-token placeholder source  *)
(* whose name is neither the loop variable nor the derived name aborts the *)
(* parse during expansion, even when it names a declared set; a loop       *)
(* replaces a placeholder by one bound value, never by a set's members.    *)
(***************************************************************************)
\* header, template and loop-end of the loop were read
LoopRead == step.tag = "ForEach" /\ step.loop.panic \in {"none", "populate", "to_map", "eval"}
ForeignPlaceholder ==
    \E src \in step.loop.template.sources :
        is_whole_placeholder(src) /\ RefName(src) \notin LoopNamesBound
OneValuePerPlaceholder ==
    \A i \in 1..Len(step.loop.tests) :
        step.loop.tests[i].sources =
            {IF is_whole_placeholder(src) THEN step.loop.maps[i][RefName(src)] ELSE src :
                src \in step.loop.template.sources}

C17_ForeignPlaceholderAborts ==
    /\ (LoopRead /\ ForeignPlaceholder) => status = "aborted"
    /\ LoopDone => OneValuePerPlaceholder

(***************************************************************************)
(* C17, amended.  Such a placeholder aborts the parse in the iteration of  *)
(* the first member, before any declaration is produced, when the iterated *)
(* set has a member; over a set without members nothing is expanded and    *)
(* the loop completes with no declaration.  A loop replaces a placeholder  *)
(* by one bound value, never by a set's members.                           *)
(***************************************************************************)
C17_ForeignPlaceholderAbortsIfIterated ==
    /\ (LoopRead /\ ForeignPlaceholder /\ Len(step.order) > 0) =>
           /\ status = "aborted"
           /\ step.loop.panic = "eval"
           /\ Len(step.loop.tests) = 0
    /\ (LoopRead /\ ForeignPlaceholder /\ Len(step.order) = 0) =>
           /\ step.loop.ok
           /\ Len(step.loop.tests) = 0
    /\ LoopDone => OneValuePerPlaceholder

C17_Witness ==
    /\ LoopRead
    /\ status = "aborted"
    /\ step.input_arg = SRC
    /\ Subst(SRC) \in step.loop.template.sources
    /\ Cardinality(source_sets[SRC].files) = 2
    /\ tests # EmptyMap

(***************************************************************************)
(* C18.  The test map is a function of the input text alone: what a loop   *)
(* leaves in the test map does not depend on the order in which the        *)
(* members of the iterated set are visited, also when two members yield    *)
(* the same substituted name and one declaration overwrites the other.     *)
(***************************************************************************)
C18_VisitOrderIrrelevant ==
    [][(step'.tag = "ForEach" /\ step'.loop.ok) =>
          \A other \in Perms(source_sets[step'.input_arg].files) :
              foreach_installed(tests,
                                parse_foreach(source_sets, step'.loop_var,
                                              step'.input_arg, step'.body, other))
                  = tests'
      ]_vars

(***************************************************************************)
(* C19.  to_map aborts when an entry is still unset, and aborts when the   *)
(* target of a derived entry does not hold a concrete string (it is unset  *)
(* or itself derived); when it returns, the mapping has exactly one value  *)
(* for every key of the table: a concrete entry's own string, a derived    *)
(* entry's target string with the transform applied.                       *)
(***************************************************************************)
Unset(table) == {k \in DOMAIN table : table[k].kind = "Nothing"}
Derived(table) == {k \in DOMAIN table : table[k].kind = "IndirectBinding"}
Unresolvable(table) ==
    {k \in Derived(table) :
        \/ table[k].target \notin DOMAIN table
        \/ table[table[k].target].kind # "String"}

C19_MaterializeContract ==
    call.name = "to_map" =>
        /\ Unset(call.before) # {} => ~call.ok
        /\ Unresolvable(call.before) # {} => ~call.ok
        /\ call.ok =>
              /\ DOMAIN call.map = DOMAIN call.before
              /\ \A k \in DOMAIN call.before :
                    call.map[k] =
                        IF k \in Derived(call.before)
                        THEN replace(call.before[call.before[k].target].s, DotCc, <<>>)
                        ELSE call.before[k].s

C19_Witness ==
    /\ call.name = "to_map"
    /\ call.ok
    /\ Derived(call.before) = {STEM}
    /\ call.before[F] = String(a_Cc)
    /\ call.map[STEM] = <<"a">>

(***************************************************************************)
(* C20.  add_transformed(key, target, f) on a table in which target is no  *)
(* key aborts and leaves the table as it was, key not inserted; when       *)
(* target is a key, key becomes a derived entry targeting it and no other  *)
(* entry changes.                                                          *)
(***************************************************************************)
C20_DeclareDerivedContract ==
    call.name = "add_transformed" =>
        IF call.target \notin DOMAIN call.before
        THEN /\ ~call.ok
             /\ bindings = call.before
        ELSE /\ call.ok
             /\ DOMAIN bindings = DOMAIN call.before \cup {call.key}
             /\ bindings[call.key] = IndirectBinding(call.target)
             /\ \A k \in DOMAIN call.before \ {call.key} : bindings[k] = call.before[k]

C20_Witness ==
    /\ call.name = "add_transformed"
    /\ ~call.ok
    /\ call.before # EmptyMap
    /\ call.key \notin DOMAIN bindings

(***************************************************************************)
(* C21.  populate(key, val) on a table in which key was never declared     *)
(* aborts and leaves the table as it was; when key is known it stores      *)
(* String(val) for key, whatever the entry held (unset, an earlier string  *)
(* or a derived definition), and changes no other entry.                   *)
(***************************************************************************)
C21_BindContract ==
    call.name = "populate" =>
        IF call.key \notin DOMAIN call.before
        THEN /\ ~call.ok
             /\ bindings = call.before
        ELSE /\ call.ok
             /\ DOMAIN bindings = DOMAIN call.before
             /\ bindings[call.key] = [kind |-> "String", s |-> call.val]
             /\ \A k \in DOMAIN call.before \ {call.key} : bindings[k] = call.before[k]

C21_Witness ==
    /\ call.name = "populate"
    /\ call.ok
    /\ call.before[call.key].kind = "IndirectBinding"
    /\ DOMAIN call.before = {F, STEM}
    /\ bindings[call.key] = String(a_Cc)

(***************************************************************************)
(* C22.  For any text the tag scanner never fails; it reports the          *)
(* recognized keyword whose occurrence starts at the smallest position of  *)
(* the text, written with or without the interior space, and returns the   *)
(* text after that occurrence; it reports end-of-input, with an empty      *)
(* remainder, exactly when no recognized keyword occurs in the text.       *)
(***************************************************************************)
Keywords == {known_terms[j] : j \in 1..Len(known_terms)}
OccursAt(t, i, kw) ==
    /\ i + Len(kw) - 1 <= Len(t)
    /\ SubSeq(t, i, i + Len(kw) - 1) = kw
KeywordStarts(t) == {i \in 1..Len(t) : \E kw \in Keywords : OccursAt(t, i, kw)}
KeywordTag(kw) ==
    CASE kw \in {kw_set, kw_set_sp} -> "Set"
      [] kw \in {kw_foreach, kw_foreach_sp} -> "ForEach"
      [] kw \in {kw_endforeach, kw_endforeach_sp} -> "EndForEach"
      [] kw \in {kw_rp_test, kw_rp_test_sp} -> "RpTest"
      [] kw \in {kw_gfc, kw_gfc_sp} -> "GetFileNameComponent"

C22_ScannerContract ==
    scanned.tag # "none" =>
        LET t == scanned.from
        IN /\ scanned.ok
           /\ IF KeywordStarts(t) = {}
              THEN scanned.tag = "EOF" /\ scanned.rem = <<>>
              ELSE LET i == Min(KeywordStarts(t))
                   IN \E kw \in Keywords :
                         /\ OccursAt(t, i, kw)
                         /\ scanned.tag = KeywordTag(kw)
                         /\ scanned.rem = SubSeq(t, i + Len(kw), Len(t))

C22_Witness ==
    /\ scanned.tag = "Set"
    /\ scanned.from = <<"x">> \o kw_set_sp \o kw_foreach
    /\ scanned.rem = kw_foreach
    /\ text = kw_foreach

(***************************************************************************)
(* C23.  A loop terminator written with something between its              *)
(* parentheses, such as endforeach(x), is not reported as loop-end: the    *)
(* scanner matches the foreach( inside it and reports a loop-start, and a  *)
(* loop body that is closed by that tag aborts the parse at the check for  *)
(* the loop-end, where one closed by endforeach() completes.               *)
(***************************************************************************)
OneFileSets == SRC :> [name |-> SRC, files |-> {a_cc}]
ClosedBy(tag) ==
    parse_foreach(OneFileSets, F, SRC,
                  <<Tag("RpTest", <<UNIT_TEST, BINARY_NAME, t_plain, SOURCES, Subst(F)>>),
                    Tag(tag, <<>>)>>,
                  <<a_cc>>)
LooseTerminator(t) ==
    \/ starts_with(t, <<"e", "n", "d">> \o kw_foreach) /\ ~starts_with(t, kw_endforeach)
    \/ starts_with(t, <<"e", "n", "d">> \o kw_foreach_sp) /\ ~starts_with(t, kw_endforeach_sp)

C23_LooseTerminatorIsLoopStart ==
    scanned.tag # "none" =>
        /\ LooseTerminator(scanned.from) =>
              /\ scanned.tag = "ForEach"
              /\ \/ scanned.rem = SubSeq(scanned.from, 12, Len(scanned.from))
                 \/ scanned.rem = SubSeq(scanned.from, 13, Len(scanned.from))
              /\ ~ClosedBy(scanned.tag).ok
              /\ ClosedBy(scanned.tag).panic = "assert_endforeach"
        /\ (starts_with(scanned.from, kw_endforeach)
               \/ starts_with(scanned.from, kw_endforeach_sp)) =>
              /\ scanned.tag = "EndForEach"
              /\ ClosedBy(scanned.tag).ok

C23_Witness ==
    /\ scanned.tag = "ForEach"
    /\ scanned.from = <<"e", "n", "d">> \o kw_foreach \o <<"x", ")">>
    /\ scanned.rem = <<"x", ")">>
    /\ ~ClosedBy(scanned.tag).ok

(***************************************************************************)
(* C24.  The sources of a parsed test declaration are exactly the tokens   *)
(* after the SOURCES marker up to, and without, the first token made only  *)
(* of uppercase letters and underscores, the empty token being one of      *)
(* these; no token after that stop token is a source, and a source path    *)
(* written in uppercase only ends the list.                                *)
(***************************************************************************)
UpperOnly(tok) == \A i \in 1..Len(tok) : tok[i] \in UpperChars \cup {"_"}
MarkerPlace(l, marker) == Min({i \in 1..Len(l) : l[i] = marker})
StopPlace(l) ==
    LET m == MarkerPlace(l, SOURCES)
        stops == {i \in (m + 1)..Len(l) : UpperOnly(l[i])}
    IN IF stops = {} THEN Len(l) + 1 ELSE Min(stops)

C24_SourcesUpToStopToken ==
    (rp_parsed.done /\ rp_parsed.ok) =>
        /\ rp_parsed.test.sources =
              {rp_tokens[i] : i \in (MarkerPlace(rp_tokens, SOURCES) + 1)..(StopPlace(rp_tokens) - 1)}
        /\ \A i \in 1..Len(rp_tokens) :
              (i >= StopPlace(rp_tokens) /\ rp_tokens[i] \in rp_parsed.test.sources) =>
                  \E j \in (MarkerPlace(rp_tokens, SOURCES) + 1)..(StopPlace(rp_tokens) - 1) :
                      rp_tokens[j] = rp_tokens[i]

C24_Witness ==
    /\ rp_parsed.done
    /\ rp_parsed.ok
    /\ rp_tokens = <<UNIT_TEST, SOURCES, a_cc, BINARY_NAME, t_plain>>
    /\ rp_parsed.test.sources = {a_cc}

(***************************************************************************)
(* C25.  A test declaration without the BINARY_NAME marker, without the    *)
(* SOURCES marker, or with the BINARY_NAME marker as its last token aborts *)
(* the parse and installs nothing, outside a loop and as the template of a *)
(* loop; the test map changes only when a kind, a name token and a source  *)
(* list were all found in the declaration.                                 *)
(***************************************************************************)
Has(l, marker) == \E i \in 1..Len(l) : l[i] = marker
LacksMarker(l) ==
    \/ ~Has(l, BINARY_NAME)
    \/ ~Has(l, SOURCES)
    \/ MarkerPlace(l, BINARY_NAME) = Len(l)
AllFound(l) ==
    /\ Len(l) >= 1
    /\ l[1] \in {UNIT_TEST, FIXTURE_TEST, BENCHMARK_TEST}
    /\ ~LacksMarker(l)

\* the tokens of the test declaration the step read, <<>> when it read none
DeclarationRead(s) ==
    IF s.tag = "RpTest"
    THEN s.toks
    ELSE IF /\ s.tag = "ForEach"
            /\ Len(s.body) >= TemplatePlace(s.body)
            /\ s.body[TemplatePlace(s.body)].tag = "RpTest"
         THEN s.body[TemplatePlace(s.body)].arg
         ELSE <<>>
ReadsDeclaration(s) ==
    \/ s.tag = "RpTest"
    \/ /\ s.tag = "ForEach"
       /\ s.input_arg \in DOMAIN source_sets
       /\ Len(s.body) >= TemplatePlace(s.body)
       /\ s.body[TemplatePlace(s.body)].tag = "RpTest"

C25_MarkersRequired ==
    [][/\ (ReadsDeclaration(step') /\ LacksMarker(DeclarationRead(step'))) =>
              /\ status' = "aborted"
              /\ tests' = tests
       /\ tests' # tests => AllFound(DeclarationRead(step'))
      ]_vars

C25_Witness ==
    /\ step.tag = "RpTest"
    /\ status = "aborted"
    /\ step.toks = <<UNIT_TEST, SOURCES, a_cc, BINARY_NAME>>
    /\ tests # EmptyMap

(***************************************************************************)
(* C26.  Every declaration of the test map has the kind its declaration's  *)
(* first token selects (unit, fixture or benchmark) and no test-case       *)
(* names; expanding a loop or a set changes neither, a declaration stays   *)
(* as it is until one of the same name is installed, and a declaration     *)
(* with any other first token aborts the parse.                            *)
(***************************************************************************)
KindOf(token) ==
    IF token = UNIT_TEST THEN "Unit"
    ELSE IF token = FIXTURE_TEST THEN "Fixture"
    ELSE IF token = BENCHMARK_TEST THEN "Bench"
    ELSE "none"

C26_KindFixedAtParse ==
    [][LET installed == {discovery'[i] : i \in (Len(discovery) + 1)..Len(discovery')}
           l == DeclarationRead(step')
       IN /\ \A n \in installed :
                /\ n \in DOMAIN tests'
                /\ tests'[n].kind = KindOf(l[1])
                /\ tests'[n].kind \in {"Unit", "Fixture", "Bench"}
                /\ tests'[n].tests = {}
          /\ \A n \in DOMAIN tests \ installed :
                /\ n \in DOMAIN tests'
                /\ tests'[n] = tests[n]
          /\ (ReadsDeclaration(step') /\ KindOf(l[1]) = "none") =>
                /\ status' = "aborted"
                /\ tests' = tests
      ]_vars

C26_Witness ==
    /\ LoopDone
    /\ step.loop.template.kind = "Fixture"
    /\ Len(step.loop.tests) = 2
    /\ \A i \in 1..2 : tests[step.loop.tests[i].name].kind = "Fixture"
    /\ \E n \in DOMAIN tests : tests[n].kind = "Bench" /\ a_cc \in tests[n].sources

(***************************************************************************)
(* C27.  Each dispatcher step changes only its own table: a set            *)
(* declaration leaves the test map as it is, a test declaration and a loop *)
(* leave the set table as it is, and a derived-name declaration outside a  *)
(* loop leaves both as they are.                                           *)
(***************************************************************************)
C27_OwnTableOnly ==
    [][/\ step'.tag = "Set" => tests' = tests
       /\ step'.tag \in {"RpTest", "ForEach"} => source_sets' = source_sets
       /\ step'.tag = "GetFileNameComponent" =>
              /\ tests' = tests
              /\ source_sets' = source_sets
      ]_vars

C27_Witness ==
    /\ step.tag = "Set"
    /\ step.ok
    /\ Cardinality(DOMAIN tests) = 2
    /\ DOMAIN source_sets = {SRC, LIB}

====
